---- MODULE Spec2Model ----
(***************************************************************************)
(* A model of regex-matcher/src/lib.rs: the book matcher (module book),    *)
(* the tokenizer (rs::parse) and the token matcher (rs::Matcher).          *)
(*                                                                         *)
(* A &str is modelled as a sequence of characters (Unicode scalar values). *)
(* Each character has a UTF-8 width in bytes; the code slices strings with *)
(* BYTE indices (&text[1..], &regexp[2..]), which panics in Rust when the  *)
(* index is not on a character boundary.  The character Wide stands for a  *)
(* scalar value encoded in two bytes (such as U+00E9).                     *)
(*                                                                         *)
(* Outcomes of a call are "true", "false" or "panic".                      *)
(***************************************************************************)
EXTENDS Naturals, Sequences, FiniteSets

\* Bounds of the model: the longest pattern and the longest text, in characters.
MaxPat == 4
MaxText == 2

\* A character whose UTF-8 encoding is two bytes long.
Wide == "W"

\* The characters patterns are drawn from: a literal and the characters of
\* the operators.
PatChars == {"a", ".", "^", "$", "*"}

\* The characters texts are drawn from: the pattern's literal, another
\* one-byte character and a two-byte character.
TextChars == {"a", "b", Wide}

RECURSIVE SeqsUpTo(_, _)
SeqsUpTo(S, n) ==
    IF n = 0 THEN {<<>>}
    ELSE LET shorter == SeqsUpTo(S, n - 1)
         IN  shorter \cup {Append(s, c) : s \in shorter, c \in S}

Patterns == SeqsUpTo(PatChars, MaxPat)
Texts == SeqsUpTo(TextChars, MaxText)

Outcomes == {"true", "false", "panic"}

Bool(b) == IF b THEN "true" ELSE "false"

(***************************************************************************)
(* str: UTF-8 widths and byte-index slicing.                               *)
(***************************************************************************)
\* char::len_utf8
Width(c) == IF c = Wide THEN 2 ELSE 1

\* str::len (in bytes) of the first k characters of s
RECURSIVE ByteLen(_, _)
ByteLen(s, k) == IF k = 0 THEN 0 ELSE ByteLen(s, k - 1) + Width(s[k])

\* str::is_char_boundary(n), for n no larger than the byte length: some
\* prefix of whole characters is exactly n bytes long.
CanSlice(s, n) == \E k \in 0..Len(s) : ByteLen(s, k) = n

\* &s[n..] where CanSlice(s, n): the characters after the first n bytes.
SliceFrom(s, n) ==
    LET k == CHOOSE j \in 0..Len(s) : ByteLen(s, j) = n
    IN  SubSeq(s, k + 1, Len(s))

\* str::starts_with(c) for a char c
StartsWith(s, c) == s # <<>> /\ Head(s) = c

(***************************************************************************)
(* mod book: the matcher over pattern strings.                             *)
(***************************************************************************)
RECURSIVE book_match_here(_, _), book_match_star(_, _, _)

\* book::match_here
book_match_here(regexp, text) ==
    IF regexp = <<>> THEN "true"
    ELSE IF Len(regexp) >= 2 /\ regexp[2] = "*" THEN
        \* &regexp[2..] is a byte slice
        IF CanSlice(regexp, 2)
        THEN book_match_star(regexp[1], SliceFrom(regexp, 2), text)
        ELSE "panic"
    ELSE IF regexp = <<"$">> THEN Bool(text = <<>>)
    ELSE IF text # <<>> /\ (StartsWith(regexp, ".") \/ StartsWith(regexp, Head(text))) THEN
        IF CanSlice(regexp, 1) /\ CanSlice(text, 1)
        THEN book_match_here(SliceFrom(regexp, 1), SliceFrom(text, 1))
        ELSE "panic"
    ELSE "false"

\* book::match_star: the loop, one iteration per unfolding
book_match_star(starred, regexp, text) ==
    LET here == book_match_here(regexp, text)
    IN  IF here = "true" THEN "true"
        ELSE IF here = "panic" THEN "panic"
        ELSE IF text = <<>> \/ ~(starred = "." \/ StartsWith(text, starred)) THEN "false"
        ELSE IF CanSlice(text, 1) THEN book_match_star(starred, regexp, SliceFrom(text, 1))
        ELSE "panic"

\* book::match_regexp, the unanchored loop
RECURSIVE book_loop(_, _)
book_loop(regexp, text) ==
    LET here == book_match_here(regexp, text)
    IN  IF here = "true" THEN "true"
        ELSE IF here = "panic" THEN "panic"
        ELSE IF text = <<>> THEN "false"
        ELSE IF CanSlice(text, 1) THEN book_loop(regexp, SliceFrom(text, 1))
        ELSE "panic"

\* book::match_regexp
book_match_regexp(regexp, text) ==
    IF StartsWith(regexp, "^")
    THEN book_match_here(SliceFrom(regexp, 1), text)
    ELSE book_loop(regexp, text)

(***************************************************************************)
(* mod rs::parse: tokens and the tokenizer.                                *)
(***************************************************************************)
\* parse::Single
Any == <<"Any">>
Literal(c) == <<"Literal", c>>

\* parse::Token
Start == <<"Start">>
End == <<"End">>
Single(k) == <<"Single", k>>
ZeroOrMore(k) == <<"ZeroOrMore", k>>

\* impl From<char> for Single
SingleFrom(c) == IF c = "." THEN Any ELSE Literal(c)

\* Tokens::next without the self.0.next() that consumes the `*`.
TokensNext_KeepsStar(chars) ==
    LET nxt == Head(chars)
        rest == Tail(chars)
    IN  IF nxt = "^" THEN [tok |-> Start, rest |-> rest]
        ELSE IF nxt = "$" THEN [tok |-> End, rest |-> rest]
        ELSE IF rest # <<>> /\ Head(rest) = "*"
             THEN [tok |-> ZeroOrMore(SingleFrom(nxt)), rest |-> rest]
        ELSE [tok |-> Single(SingleFrom(nxt)), rest |-> rest]

\* Tokens::next on the remaining characters: the token and the characters left.
TokensNext(chars) ==
    LET nxt == Head(chars)
        rest == Tail(chars)
    IN  IF nxt = "^" THEN [tok |-> Start, rest |-> rest]
        ELSE IF nxt = "$" THEN [tok |-> End, rest |-> rest]
        ELSE IF rest # <<>> /\ Head(rest) = "*"
             THEN [tok |-> ZeroOrMore(SingleFrom(nxt)), rest |-> Tail(rest)]
        ELSE [tok |-> Single(SingleFrom(nxt)), rest |-> rest]

\* str::tokenize, collected: Tokens::next until the characters run out.
RECURSIVE tokenize(_)
tokenize(chars) ==
    IF chars = <<>> THEN <<>>
    ELSE LET n == TokensNext(chars) IN <<n.tok>> \o tokenize(n.rest)

(***************************************************************************)
(* mod rs: Matcher, as functions of (remaining tokens, remaining text).    *)
(***************************************************************************)
RECURSIVE rs_match_here(_, _), rs_match_star(_, _, _)

\* Matcher::match_here
rs_match_here(toks, text) ==
    IF toks = <<>> THEN "true"
    ELSE LET tok == Head(toks)
             rest == Tail(toks)
         IN  IF tok[1] = "ZeroOrMore" THEN rs_match_star(tok[2], rest, text)
             ELSE IF tok = End THEN Bool(text = <<>>)
             ELSE IF (tok = Single(Any) /\ text # <<>>)
                     \/ (tok[1] = "Single" /\ tok[2][1] = "Literal"
                         /\ StartsWith(text, tok[2][2])) THEN
                 IF CanSlice(text, 1)
                 THEN rs_match_here(rest, SliceFrom(text, 1))
                 ELSE "panic"
             ELSE IF tok = Start THEN "panic"
             ELSE "false"

\* Matcher::match_star (c is never read by the code)
rs_match_star(c, toks, text) ==
    LET here == rs_match_here(toks, text)
    IN  IF here = "true" THEN "true"
        ELSE IF here = "panic" THEN "panic"
        ELSE IF text = <<>> THEN "false"
        ELSE IF CanSlice(text, 1) THEN rs_match_star(c, toks, SliceFrom(text, 1))
        ELSE "panic"

\* Matcher::match_rest
RECURSIVE rs_match_rest(_, _)
rs_match_rest(toks, text) ==
    LET here == rs_match_here(toks, text)
    IN  IF here = "true" THEN "true"
        ELSE IF here = "panic" THEN "panic"
        ELSE IF text = <<>> THEN "false"
        ELSE IF CanSlice(text, 1) THEN rs_match_rest(toks, SliceFrom(text, 1))
        ELSE "panic"

\* Matcher::is_match
rs_is_match(toks, text) ==
    IF toks # <<>> /\ Head(toks) = Start
    THEN rs_match_here(Tail(toks), text)
    ELSE rs_match_rest(toks, text)

\* rs::match_regexp
rs_match_regexp(regexp, text) == rs_is_match(tokenize(regexp), text)

(***************************************************************************)
(* The run of the test's loop body on one (regexp, text) pair:             *)
(* book::match_regexp, then rs::match_regexp with Matcher's recursion      *)
(* spelled out on an explicit call stack.  A frame is one activation of    *)
(* match_rest, match_here or match_star with the tokens and text it was    *)
(* entered with; st says where the activation stands: "enter" (not yet     *)
(* run), "here" (waiting for self.clone().match_here(text)) or "tail"      *)
(* (waiting for the call whose result it returns unchanged).               *)
(***************************************************************************)
VARIABLES regexp, text, pc, bookResult, tokens, stack, ret, rsResult

vars == <<regexp, text, pc, bookResult, tokens, stack, ret, rsResult>>

NoSingle == <<"None">>

Frame(fn, toks, txt, c) == [fn |-> fn, toks |-> toks, text |-> txt, c |-> c, st |-> "enter"]

Top == stack[Len(stack)]

Running(fn, st) == pc = "running" /\ stack # <<>> /\ Top.fn = fn /\ Top.st = st

\* the stack with the top activation moved to st and a callee entered above it
Call(st, callee) == Append([stack EXCEPT ![Len(stack)].st = st], callee)

\* the top activation returns r to its caller
Return(r) == /\ stack' = SubSeq(stack, 1, Len(stack) - 1)
             /\ ret' = r

\* a panic unwinds every activation
Unwind == /\ stack' = <<>>
          /\ ret' = "panic"

Init == /\ regexp \in Patterns
        /\ text \in Texts
        /\ pc = "init"
        /\ bookResult = "none"
        /\ tokens = <<>>
        /\ stack = <<>>
        /\ ret = "none"
        /\ rsResult = "none"

\* test::same_results: let book = book::match_regexp(regexp, text)
CallBook ==
    /\ pc = "init"
    /\ bookResult' = book_match_regexp(regexp, text)
    /\ pc' = "book"
    /\ UNCHANGED <<regexp, text, tokens, stack, ret, rsResult>>

\* rs::match_regexp: Matcher::new(regexp.tokenize())
Tokenize ==
    /\ pc = "book"
    /\ tokens' = tokenize(regexp)
    /\ pc' = "tokenized"
    /\ UNCHANGED <<regexp, text, bookResult, stack, ret, rsResult>>

\* Matcher::is_match that drops the Start token and then slides like an
\* unanchored match.
IsMatchFrame_Sliding(toks, txt) ==
    IF toks # <<>> /\ Head(toks) = Start
    THEN Frame("match_rest", Tail(toks), txt, NoSingle)
    ELSE Frame("match_rest", toks, txt, NoSingle)

\* Matcher::is_match: the activation it hands the text to
IsMatchFrame(toks, txt) ==
    IF toks # <<>> /\ Head(toks) = Start
    THEN Frame("match_here", Tail(toks), txt, NoSingle)
    ELSE Frame("match_rest", toks, txt, NoSingle)

IsMatch ==
    /\ pc = "tokenized"
    /\ stack' = <<IsMatchFrame(tokens, text)>>
    /\ pc' = "running"
    /\ UNCHANGED <<regexp, text, bookResult, tokens, ret, rsResult>>

\* Matcher::match_rest, entry: self.clone().match_here(text)
MatchRest ==
    /\ Running("match_rest", "enter")
    /\ stack' = Call("here", Frame("match_here", Top.toks, Top.text, NoSingle))
    /\ ret' = "none"
    /\ UNCHANGED <<regexp, text, pc, bookResult, tokens, rsResult>>

\* What match_rest and match_star do with the result of their match_here call:
\* "true", "false", "panic" (the byte slice &text[1..]) or "again" (recurse).
AfterHere(here, txt) ==
    IF here = "true" THEN "true"
    ELSE IF txt = <<>> THEN "false"
    ELSE IF CanSlice(txt, 1) THEN "again"
    ELSE "panic"

\* Matcher::match_rest that recurses on text instead of &text[1..].
MatchRestResume_NoAdvance ==
    /\ Running("match_rest", "here")
    /\ ret # "none"
    /\ LET next == AfterHere(ret, Top.text)
       IN  IF next = "panic" THEN Unwind
           ELSE IF next = "again" THEN
               /\ stack' = Call("tail", Frame("match_rest", Top.toks, Top.text, NoSingle))
               /\ ret' = "none"
           ELSE Return(next)
    /\ UNCHANGED <<regexp, text, pc, bookResult, tokens, rsResult>>

\* Matcher::match_rest, after match_here returned
MatchRestResume ==
    /\ Running("match_rest", "here")
    /\ ret # "none"
    /\ LET next == AfterHere(ret, Top.text)
       IN  IF next = "panic" THEN Unwind
           ELSE IF next = "again" THEN
               /\ stack' = Call("tail", Frame("match_rest", Top.toks,
                                              SliceFrom(Top.text, 1), NoSingle))
               /\ ret' = "none"
           ELSE Return(next)
    /\ UNCHANGED <<regexp, text, pc, bookResult, tokens, rsResult>>

\* Matcher::match_here whose None arm is text.is_empty() instead of true.
MatchHereArm_NoneNeedsEnd(toks, txt) ==
    IF toks = <<>> THEN Bool(txt = <<>>)
    ELSE LET tok == Head(toks)
         IN  IF tok[1] = "ZeroOrMore" THEN "star"
             ELSE IF tok = End THEN Bool(txt = <<>>)
             ELSE IF (tok = Single(Any) /\ txt # <<>>)
                     \/ (tok[1] = "Single" /\ tok[2][1] = "Literal"
                         /\ StartsWith(txt, tok[2][2])) THEN
                 IF CanSlice(txt, 1) THEN "step" ELSE "panic"
             ELSE IF tok = Start THEN "panic"
             ELSE "false"

\* Matcher::match_here without the End arm: End falls to `_ => false`.
MatchHereArm_NoEndArm(toks, txt) ==
    IF toks = <<>> THEN "true"
    ELSE LET tok == Head(toks)
         IN  IF tok[1] = "ZeroOrMore" THEN "star"
             ELSE IF (tok = Single(Any) /\ txt # <<>>)
                     \/ (tok[1] = "Single" /\ tok[2][1] = "Literal"
                         /\ StartsWith(txt, tok[2][2])) THEN
                 IF CanSlice(txt, 1) THEN "step" ELSE "panic"
             ELSE IF tok = Start THEN "panic"
             ELSE "false"

\* Matcher::match_here: what the activation does on the next token:
\* return "true" or "false", "panic", call match_star ("star") or call
\* match_here on the rest of the text ("step").
MatchHereArm(toks, txt) ==
    IF toks = <<>> THEN "true"
    ELSE LET tok == Head(toks)
         IN  IF tok[1] = "ZeroOrMore" THEN "star"
             ELSE IF tok = End THEN Bool(txt = <<>>)
             ELSE IF (tok = Single(Any) /\ txt # <<>>)
                     \/ (tok[1] = "Single" /\ tok[2][1] = "Literal"
                         /\ StartsWith(txt, tok[2][2])) THEN
                 IF CanSlice(txt, 1) THEN "step" ELSE "panic"
             ELSE IF tok = Start THEN "panic"
             ELSE "false"

MatchHere ==
    /\ Running("match_here", "enter")
    /\ LET arm == MatchHereArm(Top.toks, Top.text)
       IN  IF arm = "panic" THEN Unwind
           ELSE IF arm = "star" THEN
               /\ stack' = Call("tail", Frame("match_star", Tail(Top.toks), Top.text,
                                              Head(Top.toks)[2]))
               /\ ret' = "none"
           ELSE IF arm = "step" THEN
               /\ stack' = Call("tail", Frame("match_here", Tail(Top.toks),
                                              SliceFrom(Top.text, 1), NoSingle))
               /\ ret' = "none"
           ELSE Return(arm)
    /\ UNCHANGED <<regexp, text, pc, bookResult, tokens, rsResult>>

\* Matcher::match_star, entry: self.clone().match_here(text)
MatchStar ==
    /\ Running("match_star", "enter")
    /\ stack' = Call("here", Frame("match_here", Top.toks, Top.text, NoSingle))
    /\ ret' = "none"
    /\ UNCHANGED <<regexp, text, pc, bookResult, tokens, rsResult>>

\* Matcher::match_star, after match_here returned
MatchStarResume ==
    /\ Running("match_star", "here")
    /\ ret # "none"
    /\ LET next == AfterHere(ret, Top.text)
       IN  IF next = "panic" THEN Unwind
           ELSE IF next = "again" THEN
               /\ stack' = Call("tail", Frame("match_star", Top.toks,
                                              SliceFrom(Top.text, 1), Top.c))
               /\ ret' = "none"
           ELSE Return(next)
    /\ UNCHANGED <<regexp, text, pc, bookResult, tokens, rsResult>>

\* an activation whose last expression was a call returns that call's result
ReturnTail ==
    /\ pc = "running" /\ stack # <<>> /\ Top.st = "tail"
    /\ ret # "none"
    /\ Return(ret)
    /\ UNCHANGED <<regexp, text, pc, bookResult, tokens, rsResult>>

\* rs::match_regexp returns (or unwinds) to the test: let rs = ...
Finish ==
    /\ pc = "running" /\ stack = <<>>
    /\ rsResult' = ret
    /\ pc' = "done"
    /\ UNCHANGED <<regexp, text, bookResult, tokens, stack, ret>>

Next == \/ CallBook
        \/ Tokenize
        \/ IsMatch
        \/ MatchRest
        \/ MatchRestResume
        \/ MatchHere
        \/ MatchStar
        \/ MatchStarResume
        \/ ReturnTail
        \/ Finish

Spec == Init /\ [][Next]_vars

\* The call stack runs without interruption: a step that can be taken is taken.
FairSpec == Spec /\ WF_vars(Next)

Done == pc = "done"

TypeOK ==
    /\ regexp \in Patterns
    /\ text \in Texts
    /\ pc \in {"init", "book", "tokenized", "running", "done"}
    /\ bookResult \in Outcomes \cup {"none"}
    /\ ret \in Outcomes \cup {"none"}
    /\ rsResult \in Outcomes \cup {"none"}

\* The call stack computes the functions above.
StackAgrees == Done => rsResult = rs_match_regexp(regexp, text)

(***************************************************************************)
(* Vocabulary of the properties.                                           *)
(***************************************************************************)
\* the suffix of s that starts after its first i characters
Drop(s, i) == SubSeq(s, i + 1, Len(s))

IsSuffix(s, t) == \E i \in 0..Len(t) : s = Drop(t, i)

\* '^' occurs only as the first symbol and '$' only as the last
WellAnchored(toks) ==
    \A i \in 1..Len(toks) : /\ toks[i] = Start => i = 1
                            /\ toks[i] = End => i = Len(toks)

Anchored(toks) == toks # <<>> /\ Head(toks) = Start

\* a character matches a kind: any character for Any, c itself for Literal(c)
KindMatches(k, ch) == k = Any \/ k = Literal(ch)

\* the characters a symbol was scanned from
KindChar(k) == IF k = Any THEN "." ELSE k[2]

Untoken(tok) ==
    IF tok = Start THEN <<"^">>
    ELSE IF tok = End THEN <<"$">>
    ELSE IF tok[1] = "ZeroOrMore" THEN <<KindChar(tok[2]), "*">>
    ELSE <<KindChar(tok[2])>>

RECURSIVE Untokenize(_)
Untokenize(toks) ==
    IF toks = <<>> THEN <<>> ELSE Untoken(Head(toks)) \o Untokenize(Tail(toks))

(***************************************************************************)
(* C1 (fails on the code).  book::match_regexp and rs::match_regexp give   *)
(* the same outcome on every pattern and text: the same boolean, or both   *)
(* fault.  Stated here for the patterns that keep the anchor contract and  *)
(* the texts of one-byte characters: no misplaced anchor and no byte slice *)
(* inside a character is involved.                                         *)
(***************************************************************************)
OneByte(txt) == \A i \in 1..Len(txt) : Width(txt[i]) = 1

C1_SameResults == (Done /\ WellAnchored(tokens) /\ OneByte(text)) => bookResult = rsResult

(***************************************************************************)
(* C2 (fails on the code).  match_star(kind, continuation, text) is true   *)
(* iff for some k >= 0 the first k characters of text all match kind and   *)
(* match_here(continuation, text less its first k characters) is true; and *)
(* the star consumes a character only when it matches kind.  Stated here   *)
(* for texts of one-byte characters, which no byte slice can split.        *)
(***************************************************************************)
StarOfKind(c, toks, txt) ==
    \E k \in 0..Len(txt) : /\ \A j \in 1..k : KindMatches(c, txt[j])
                           /\ rs_match_here(toks, Drop(txt, k)) = "true"

C2_StarMatchesOnlyItsKind ==
    /\ (Running("match_star", "enter") /\ OneByte(text)) =>
         (rs_match_star(Top.c, Top.toks, Top.text) = "true"
            <=> StarOfKind(Top.c, Top.toks, Top.text))
    /\ \A i \in 1..(Len(stack) - 1) :
         (stack[i].fn = "match_star" /\ stack[i + 1].fn = "match_star")
            => KindMatches(stack[i].c, Head(stack[i].text))

(***************************************************************************)
(* C3 (fails on the code).  A pattern whose symbols hold EndAnchor in a    *)
(* position other than the last makes rs::match_regexp panic, on every     *)
(* text; it never returns a boolean.                                       *)
(***************************************************************************)
MisplacedEnd(toks) == \E i \in 1..(Len(toks) - 1) : toks[i] = End

C3_MisplacedEndPanics == (Done /\ MisplacedEnd(tokens)) => rsResult = "panic"

(***************************************************************************)
(* C4 (fails on the code).  With '^' only first and '$' only last in the   *)
(* pattern, rs::match_regexp returns a boolean on every text, texts with   *)
(* characters of more than one byte included: a fault is reached only by   *)
(* an anchor contract violation.                                           *)
(***************************************************************************)
C4_NoFaultOnWellAnchored == (Done /\ WellAnchored(tokens)) => rsResult \in {"true", "false"}

(***************************************************************************)
(* C5, as stated (fails on the code).  On the empty text the result is     *)
(* true iff the pattern is empty, or is made of anchors only, or is made   *)
(* of `*`-repetitions only, and false for every other pattern.  Stated     *)
(* here for the patterns that keep the anchor contract.                    *)
(***************************************************************************)
OnlyAnchors(toks) == \A i \in 1..Len(toks) : toks[i] \in {Start, End}

OnlyRepetitions(toks) == \A i \in 1..Len(toks) : toks[i][1] = "ZeroOrMore"

C5_EmptyTextAsStated ==
    (Done /\ text = <<>> /\ WellAnchored(tokens))
        => rsResult = Bool(OnlyAnchors(tokens) \/ OnlyRepetitions(tokens))

(***************************************************************************)
(* C5, amended.  For every pattern with '^' only first and '$' only last,  *)
(* the result on the empty text is true iff every symbol of the pattern is *)
(* an anchor or a `*`-repetition (the empty pattern, anchors alone,        *)
(* repetitions alone, and mixtures such as `a*$`), and false otherwise.    *)
(***************************************************************************)
OnlyAnchorsAndRepetitions(toks) ==
    \A i \in 1..Len(toks) : toks[i] \in {Start, End} \/ toks[i][1] = "ZeroOrMore"

C5_EmptyText ==
    (Done /\ text = <<>> /\ WellAnchored(tokens))
        => rsResult = Bool(OnlyAnchorsAndRepetitions(tokens))

C5_Witness ==
    Done /\ text = <<>> /\ regexp = <<"a", "*", "$">> /\ rsResult = "true"

(***************************************************************************)
(* C6 (fails on the code).  For a pattern whose first symbol is not        *)
(* StartAnchor, the result is true iff match_here(symbols, suffix of the   *)
(* text from i) is true for some offset 0 <= i <= len(text), and false iff *)
(* there is no such offset.  Stated here for the patterns that keep the    *)
(* anchor contract, so that no misplaced anchor is involved.               *)
(***************************************************************************)
MatchesAtSomeOffset(toks, txt) ==
    \E i \in 0..Len(txt) : rs_match_here(toks, Drop(txt, i)) = "true"

C6_UnanchoredScansAllOffsets ==
    (Done /\ ~Anchored(tokens) /\ WellAnchored(tokens))
        => rsResult = Bool(MatchesAtSomeOffset(tokens, text))

(***************************************************************************)
(* C7.  For a pattern '^'q the result is match_here(symbols(q), text) at   *)
(* offset 0 and nothing else: match_rest never runs, the first activation  *)
(* is match_here on the whole text, and a text in which q matches only     *)
(* from a later offset does not match.                                     *)
(***************************************************************************)
C7_AnchoredAtOffsetZero ==
    (regexp # <<>> /\ Head(regexp) = "^" /\ pc \in {"running", "done"}) =>
        /\ \A i \in 1..Len(stack) : stack[i].fn # "match_rest"
        /\ stack # <<>> =>
             /\ stack[1].fn = "match_here"
             /\ stack[1].toks = tokenize(Tail(regexp))
             /\ stack[1].text = text
        /\ Done => rsResult = rs_match_here(tokenize(Tail(regexp)), text)

C7_Witness ==
    /\ Done /\ regexp # <<>> /\ Head(regexp) = "^"
    /\ rsResult = "false"
    /\ \E i \in 1..Len(text) : rs_match_here(tokenize(Tail(regexp)), Drop(text, i)) = "true"

(***************************************************************************)
(* C8.  The empty pattern matches every text, the empty text included:     *)
(* match_here with no symbol left returns true whatever text remains.      *)
(***************************************************************************)
C8_EmptyPatternMatches ==
    /\ (Done /\ regexp = <<>>) => rsResult = "true"
    /\ (Running("match_here", "enter") /\ Top.toks = <<>>) => ENABLED (MatchHere /\ ret' = "true")

C8_Witness == Done /\ regexp = <<>> /\ Len(text) >= 2 /\ rsResult = "true"

(***************************************************************************)
(* C9, as stated (fails on the code).  Each call on a recursive path       *)
(* through match_rest, match_here and match_star strictly shrinks the      *)
(* remaining symbols or the remaining text.                                *)
(***************************************************************************)
NeverGrows(callee, caller) ==
    /\ IsSuffix(callee.toks, caller.toks)
    /\ IsSuffix(callee.text, caller.text)

Shrinks(callee, caller) ==
    Len(callee.toks) < Len(caller.toks) \/ Len(callee.text) < Len(caller.text)

C9_EveryCallShrinks ==
    \A i \in 1..(Len(stack) - 1) :
        NeverGrows(stack[i + 1], stack[i]) /\ Shrinks(stack[i + 1], stack[i])

(***************************************************************************)
(* C9, amended.  Every call terminates, with a boolean or a fault.  On a   *)
(* recursive path the pair (remaining symbols, remaining text) is always a *)
(* suffix of the original pair and never grows; the call                   *)
(* self.clone().match_here(text) made by match_rest and by match_star      *)
(* leaves both unchanged, and every other call strictly shrinks one of     *)
(* the two, so no two calls in a row leave the pair unchanged.             *)
(***************************************************************************)
SamePairToMatchHere(callee, caller) ==
    /\ caller.fn \in {"match_rest", "match_star"}
    /\ caller.st = "here"
    /\ callee.fn = "match_here"
    /\ callee.toks = caller.toks
    /\ callee.text = caller.text

C9_CallsDescend ==
    /\ \A i \in 1..Len(stack) :
         IsSuffix(stack[i].toks, tokens) /\ IsSuffix(stack[i].text, text)
    /\ \A i \in 1..(Len(stack) - 1) :
         /\ NeverGrows(stack[i + 1], stack[i])
         /\ Shrinks(stack[i + 1], stack[i]) \/ SamePairToMatchHere(stack[i + 1], stack[i])

\* Termination, by a variant.  HereSteps(m, n) and StarSteps(m, n) bound the
\* steps an activation of match_here, and of match_star or match_rest, takes
\* from its entry with m symbols and n characters left: match_here makes at
\* most one call (two steps and the callee's); match_star and match_rest
\* call match_here on the same pair and then themselves on one character
\* less (three steps and the two callees').  The bounds are exponential in
\* m + n, as backtracking is.
HereSteps(m, n) == 4 * 2^(m + n) - 3

StarSteps(m, n) == 8 * 2^(m + n) - 5

\* the steps an activation still has to take, its callee's apart
FrameSteps(f) ==
    LET m == Len(f.toks)
        n == Len(f.text)
    IN  IF f.st = "tail" THEN 1
        ELSE IF f.st = "here" THEN (IF n = 0 THEN 1 ELSE 2 + StarSteps(m, n - 1))
        ELSE IF f.fn = "match_here" THEN HereSteps(m, n)
        ELSE StarSteps(m, n)

RECURSIVE StackSteps(_)
StackSteps(st) == IF st = <<>> THEN 0 ELSE FrameSteps(Head(st)) + StackSteps(Tail(st))

StepsLeft ==
    LET whole == StarSteps(Len(regexp), Len(text))
    IN  IF pc = "init" THEN 4 + whole
        ELSE IF pc = "book" THEN 3 + whole
        ELSE IF pc = "tokenized" THEN 2 + whole
        ELSE IF pc = "running" THEN 1 + StackSteps(stack)
        ELSE 0

\* before its end the run can always take a step (CallBook and Tokenize
\* have no condition but pc: book::match_regexp and tokenize are total)
NotStuck ==
    \/ Done
    \/ pc \in {"init", "book"}
    \/ pc = "tokenized" /\ ENABLED IsMatch
    \/ pc = "running" /\ ENABLED (MatchRest \/ MatchRestResume \/ MatchHere \/ MatchStar
                                     \/ MatchStarResume \/ ReturnTail \/ Finish)

\* the pair descends along the stack, the run is never stuck before its end,
\* and every step takes the variant down
C9_Terminates ==
    /\ [](C9_CallsDescend /\ NotStuck)
    /\ [][StepsLeft' < StepsLeft]_vars

C9_Witness ==
    /\ Len(stack) >= 4
    /\ \E i \in 1..(Len(stack) - 1) : SamePairToMatchHere(stack[i + 1], stack[i])
    /\ \E i \in 1..(Len(stack) - 1) :
         stack[i].fn = "match_star" /\ stack[i + 1].fn = "match_star"
    /\ \E i \in 1..(Len(stack) - 1) :
         stack[i].fn = "match_here" /\ stack[i + 1].fn = "match_here"

(***************************************************************************)
(* C10, as stated (fails on the code).  Scanning left to right, any        *)
(* character c immediately followed by `*` becomes one Repeated(kind(c))   *)
(* that consumes both; every other character becomes StartAnchor for '^',  *)
(* EndAnchor for '$' or Atom(kind(c)).                                     *)
(***************************************************************************)
RECURSIVE StarFirst(_)
StarFirst(chars) ==
    IF chars = <<>> THEN <<>>
    ELSE IF Len(chars) >= 2 /\ chars[2] = "*"
         THEN <<ZeroOrMore(SingleFrom(chars[1]))>> \o StarFirst(Drop(chars, 2))
    ELSE IF chars[1] = "^" THEN <<Start>> \o StarFirst(Tail(chars))
    ELSE IF chars[1] = "$" THEN <<End>> \o StarFirst(Tail(chars))
    ELSE <<Single(SingleFrom(chars[1]))>> \o StarFirst(Tail(chars))

Tokenized == pc \in {"tokenized", "running", "done"}

C10_StarBeforeAnchors == Tokenized => tokens = StarFirst(regexp)

(***************************************************************************)
(* C10, amended.  '^' always becomes StartAnchor and '$' EndAnchor, also   *)
(* when a `*` follows (the `*` is then scanned as a character of its       *)
(* own); any other character c immediately followed by `*` becomes one     *)
(* Repeated(kind(c)) that consumes both, and any other character alone     *)
(* becomes Atom(kind(c)); kind(c) is AnyChar for '.', Literal(c) otherwise.*)
(* Stated without the scan: the symbols spell the pattern back, no kind is *)
(* a literal '.', '^' or '$', and no Atom stands before a `*`.             *)
(***************************************************************************)
KindOK(k) == k = Any \/ (k[1] = "Literal" /\ k[2] \notin {".", "^", "$"})

C10_TokenizerRules ==
    Tokenized =>
        /\ Untokenize(tokens) = regexp
        /\ \A i \in 1..Len(tokens) :
             tokens[i] \in {Start, End}
             \/ (tokens[i][1] \in {"Single", "ZeroOrMore"} /\ KindOK(tokens[i][2]))
        /\ \A i \in 1..(Len(tokens) - 1) :
             tokens[i][1] = "Single" => Head(Untoken(tokens[i + 1])) # "*"

C10_Witness ==
    /\ Tokenized
    /\ regexp = <<"^", "*", "*">>
    /\ tokens = <<Start, ZeroOrMore(Literal("*"))>>

====
